---------------------------- MODULE Spec2Model ----------------------------
(***************************************************************************)
(* A model of mqttactions: the per-Location recurring-event scheduler      *)
(* (geo.py) and the type-directed message dispatcher (runtime.py).         *)
(*                                                                         *)
(* Time is an integer count of units; OneDay units make a calendar day, so *)
(* an instant t has date t \div OneDay and time of day t % OneDay.         *)
(***************************************************************************)
EXTENDS Integers, Sequences, FiniteSets, TLC

\* ------------------------------------------------------------------ bounds
MaxTime == 5        \* the clock stops advancing here
MaxJobs == 2         \* registrations of recurring jobs
MaxStops == 2        \* calls of Location.stop()
MaxEntries == 6      \* entries ever inserted before the scheduler stops scanning
MaxAdds == 3         \* calls of add_subscriber

\* ------------------------------------------------------------- time, geo.py
OneDay == 4          \* timedelta(days=1), in model units
Noon == OneDay \div 2

DateOf(t) == t \div OneDay

\* The astronomical computer is an external collaborator: a function of the
\* date (it is always asked for noon of a date), whose result moves a little
\* from day to day.
SunriseAt(d) == d * OneDay + 1
SunsetAt(d) == d * OneDay + 2 + (d % 2)

\* The jobs offered to registration: the signed offset of a solar event (0 for
\* no offset given), the target time of day of a fixed local time.
SunriseOffsets == {-2, 0}
SunsetOffsets == {-1, 1}
TargetTimes == {0, 2}
JobSpecs == [kind : {"sunrise"}, param : SunriseOffsets]
              \cup [kind : {"sunset"}, param : SunsetOffsets]
              \cup [kind : {"localtime"}, param : TargetTimes]

\* The occurrence of a job on calendar date d.
Occurrence(js, d) ==
    CASE js.kind = "sunrise" -> SunriseAt(d) + js.param
      [] js.kind = "sunset" -> SunsetAt(d) + js.param
      [] js.kind = "localtime" -> d * OneDay + js.param

\* The comparison of "Schedule first event" taken as strict.
FirstOccurrenceStrict(js, now) ==
    IF Occurrence(js, DateOf(now)) < now
    THEN Occurrence(js, DateOf(now) + 1)
    ELSE Occurrence(js, DateOf(now))

\* "Schedule first event": today's occurrence, or tomorrow's when today's is
\* already <= now.
FirstOccurrence(js, now) ==
    IF Occurrence(js, DateOf(now)) <= now
    THEN Occurrence(js, DateOf(now) + 1)
    ELSE Occurrence(js, DateOf(now))

\* "Schedule for next day", from the time the job body reads after func().
NextOccurrence(js, now) == Occurrence(js, DateOf(now) + 1)

\* list.remove(cb): the first element equal to cb. Callback is a namedtuple, so
\* equality is by value (datetime, callable); the id is history only.
SameCallback(a, b) == a.dt = b.dt /\ a.job = b.job

Contains(list, cb) == \E i \in 1..Len(list) : SameCallback(list[i], cb)

FirstIndex(list, cb) ==
    CHOOSE i \in 1..Len(list) :
        /\ SameCallback(list[i], cb)
        /\ \A k \in 1..(i - 1) : ~SameCallback(list[k], cb)

\* The for body without the remove: the list is left as it is.
RemoveNothing(list, i) == list

RemoveAt(list, i) == SubSeq(list, 1, i - 1) \o SubSeq(list, i + 1, Len(list))

\* The for body without its try/except: the exception ends the thread.
OnJobErrorUncaught == "crashed"

\* except Exception: print(...) -- the for loop goes on with the next entry.
OnJobError == "scan"

\* ------------------------------------------------------------ runtime.py
\* Python values are [ty, v]: the class name and the content as a sequence of
\* integers, so that == is equality of class and content.
NoneVal == [ty |-> "None", v |-> <<>>]
NoArg == [ty |-> "noarg", v |-> <<>>]
BytesVal(b) == [ty |-> "bytes", v |-> b]
StrVal(cs) == [ty |-> "str", v |-> cs]
IntVal(n) == [ty |-> "int", v |-> <<n>>]
\* A dict of one string key: the key's characters, -1, the encoded value.
EncodeScalar(x) == IF x.ty = "int" THEN <<-2>> \o x.v ELSE <<-3>> \o x.v
DictVal(key, x) == [ty |-> "dict", v |-> key \o <<-1>> \o EncodeScalar(x)]
EmptyDict == [ty |-> "dict", v |-> <<>>]

Failed == [ok |-> FALSE, val |-> NoneVal]
Ok(x) == [ok |-> TRUE, val |-> x]

\* bytes.decode('utf8'), for one- and two-byte sequences.
RECURSIVE Utf8Decode(_)
Utf8Decode(b) ==
    IF b = <<>> THEN Ok(StrVal(<<>>))
    ELSE IF b[1] < 128
         THEN LET r == Utf8Decode(Tail(b)) IN
              IF r.ok THEN Ok(StrVal(<<b[1]>> \o r.val.v)) ELSE Failed
    ELSE IF b[1] \in 194..223 /\ Len(b) >= 2 /\ b[2] \in 128..191
         THEN LET r == Utf8Decode(Tail(Tail(b))) IN
              IF r.ok
              THEN Ok(StrVal(<<(b[1] - 192) * 64 + (b[2] - 128)>> \o r.val.v))
              ELSE Failed
    ELSE Failed

\* The JSON grammar of the model: a digit, a string without escapes, or an
\* object of at most one member whose value is a digit or a string; spaces
\* between tokens are skipped (no string of the model holds a space).
JsonScalar(s) ==
    IF Len(s) = 1 /\ s[1] \in 48..57 THEN Ok(IntVal(s[1] - 48))
    ELSE IF /\ Len(s) >= 2
            /\ s[1] = 34
            /\ s[Len(s)] = 34
            /\ \A i \in 2..(Len(s) - 1) : s[i] \notin {34, 92}
         THEN Ok(StrVal(SubSeq(s, 2, Len(s) - 1)))
    ELSE Failed

JsonObject(s) ==
    IF Len(s) = 2 THEN Ok(EmptyDict)
    ELSE IF Len(s) >= 6 /\ s[2] = 34 /\ \E q \in 3..(Len(s) - 3) : s[q] = 34
    THEN LET q == CHOOSE q \in 3..(Len(s) - 3) :
                      s[q] = 34 /\ \A k \in 3..(q - 1) : s[k] # 34
             val == JsonScalar(SubSeq(s, q + 2, Len(s) - 1))
         IN IF s[q + 1] = 58 /\ val.ok
                /\ \A k \in 3..(q - 1) : s[k] # 92
            THEN Ok(DictVal(SubSeq(s, 3, q - 1), val.val))
            ELSE Failed
    ELSE Failed

IsSpace(c) == c = 32

JsonParse(cs) ==
    LET s == SelectSeq(cs, LAMBDA c : ~IsSpace(c)) IN
    IF s = <<>> THEN Failed
    ELSE IF s[1] = 123 /\ s[Len(s)] = 125 THEN JsonObject(s)
    ELSE JsonScalar(s)

ConvertToBytes(payload) == Ok(BytesVal(payload))
ConvertToStr(payload) == Utf8Decode(payload)
\* json.loads(bytes) decodes the bytes, then parses the text. The result need
\* not be a dict: a JSON scalar is returned as it is.
ConvertToDict(payload) ==
    LET text == Utf8Decode(payload) IN
    IF text.ok THEN JsonParse(text.val.v) ELSE Failed

\* inspect.getmembers sorts by name: _convert_to_bytes, _convert_to_dict,
\* _convert_to_str. This is the order of subscribers_by_type.
TagOrder == <<"bytes", "dict", "str">>
Tags == {"bytes", "dict", "str"}

Convert(tag, payload) ==
    CASE tag = "bytes" -> ConvertToBytes(payload)
      [] tag = "dict" -> ConvertToDict(payload)
      [] tag = "str" -> ConvertToStr(payload)

\* SubscriberManager.__init__
NewManager == [t \in Tags |-> <<>>]

\* typing.get_origin: the plain class of a typing generic, None otherwise.
GetOrigin(annotation) ==
    IF annotation = "Dict[str, Any]" THEN "dict" ELSE "None"

\* The type the callback expects, without the default for a parameter that
\* has no annotation.
CallbackTypeNoDefault(callback) ==
    LET declared == IF callback.nparams = 1 /\ callback.annotation # "empty"
                    THEN callback.annotation
                    ELSE "None"
    IN IF GetOrigin(declared) # "None" THEN GetOrigin(declared) ELSE declared

\* add_subscriber, lines 36-54: the type the callback expects.
CallbackType(callback) ==
    LET declared == IF callback.nparams = 1
                    THEN IF callback.annotation = "empty" THEN "bytes"
                         ELSE callback.annotation
                    ELSE "None"
    IN IF GetOrigin(declared) # "None" THEN GetOrigin(declared) ELSE declared

FilterType(payload_filter) == payload_filter.ty

\* The tag taken without looking at the filter: callback_type or bytes.
EffectiveTypeNoFilter(callback_type, filter_type) ==
    IF callback_type # "None" THEN callback_type ELSE "bytes"

\* callback_type or filter_type or bytes
EffectiveType(callback_type, filter_type) ==
    IF callback_type # "None" THEN callback_type
    ELSE IF filter_type # "None" THEN filter_type
    ELSE "bytes"

\* SubscriberManager.add_subscriber: the outcome and the new subscribers_by_type.
MgrAddSubscriber(mgr, callback, payload_filter) ==
    LET callback_type == CallbackType(callback)
        filter_type == FilterType(payload_filter)
        effective_type == EffectiveType(callback_type, filter_type)
    IN IF callback.nparams > 1
       THEN [outcome |-> "too_many_params", tag |-> "None", mgr |-> mgr]
       ELSE IF /\ payload_filter # NoneVal
               /\ callback_type # "None"
               /\ filter_type # callback_type
       THEN [outcome |-> "incompatible", tag |-> "None", mgr |-> mgr]
       ELSE IF effective_type \notin DOMAIN mgr
       THEN [outcome |-> "unsupported", tag |-> "None", mgr |-> mgr]
       ELSE [outcome |-> "stored", tag |-> effective_type,
             mgr |-> [mgr EXCEPT ![effective_type] =
                         Append(@, [callback |-> callback,
                                    datatype |-> callback_type,
                                    payload_filter |-> payload_filter])]]

\* The inner loop of notify over one tag's subscribers, from position i. A
\* call is [tag, pos, arg]; a callback that raises ends the loop, and the
\* exception leaves notify.
RECURSIVE NotifySubscribers(_, _, _, _, _)
NotifySubscribers(tag, subs, converted, i, calls) ==
    IF i > Len(subs) THEN [invoked |-> calls, raised |-> FALSE]
    ELSE LET s == subs[i] IN
         IF s.payload_filter # NoneVal /\ converted # s.payload_filter
         THEN NotifySubscribers(tag, subs, converted, i + 1, calls)
         ELSE LET call == [tag |-> tag, pos |-> i,
                           arg |-> IF s.datatype = "None" THEN NoArg
                                   ELSE converted]
              IN IF s.callback.raises
                 THEN [invoked |-> Append(calls, call), raised |-> TRUE]
                 ELSE NotifySubscribers(tag, subs, converted, i + 1,
                                        Append(calls, call))

NoResult == [invoked |-> <<>>, raised |-> FALSE, converted |-> <<>>,
             failed |-> <<>>]

\* The outer loop of notify over subscribers_by_type.items(), from tag k.
RECURSIVE NotifyTags(_, _, _, _)
NotifyTags(mgr, payload, k, acc) ==
    IF k > Len(TagOrder) THEN acc
    ELSE LET tag == TagOrder[k]
             subs == mgr[tag]
         IN IF subs = <<>> THEN NotifyTags(mgr, payload, k + 1, acc)
            ELSE LET c == Convert(tag, payload) IN
                 IF ~c.ok
                 THEN NotifyTags(mgr, payload, k + 1,
                                 [acc EXCEPT !.converted = Append(@, tag),
                                             !.failed = Append(@, tag)])
                 ELSE LET r == NotifySubscribers(tag, subs, c.val, 1,
                                                 acc.invoked)
                          acc2 == [acc EXCEPT !.converted = Append(@, tag),
                                              !.invoked = r.invoked]
                      IN IF r.raised THEN [acc2 EXCEPT !.raised = TRUE]
                         ELSE NotifyTags(mgr, payload, k + 1, acc2)

\* SubscriberManager.notify
Notify(mgr, payload) == NotifyTags(mgr, payload, 1, NoResult)

\* The inputs of the runtime.
Topics == {"t1", "t2"}

PayloadOn == <<111, 110>>                               \* b'on'
PayloadAccent == <<111, 195, 169>>                      \* b'o\xc3\xa9'
PayloadX1 == <<123, 34, 120, 34, 58, 49, 125>>          \* b'{"x":1}'
PayloadX1Spaced == <<123, 34, 120, 34, 58, 32, 49, 125>> \* b'{"x": 1}'
PayloadBad == <<255>>                                   \* b'\xff'
PayloadOne == <<49>>                                    \* b'1'
Payloads == {PayloadOn, PayloadAccent, PayloadX1, PayloadX1Spaced,
             PayloadBad, PayloadOne}

FilterOnStr == StrVal(<<111, 110>>)                     \* "on"
FilterOnBytes == BytesVal(<<111, 110>>)                 \* b"on"
FilterX1 == DictVal(<<120>>, IntVal(1))                 \* {"x": 1}
FilterInt == IntVal(1)                                  \* 1
Filters == {NoneVal, FilterOnStr, FilterOnBytes, FilterX1, FilterInt}

Cb(name, nparams, annotation, raises) ==
    [name |-> name, nparams |-> nparams, annotation |-> annotation,
     raises |-> raises]
F0 == Cb("f0", 0, "empty", FALSE)                  \* def f0()
F1 == Cb("f1", 1, "empty", FALSE)                  \* def f1(payload)
FBytes == Cb("fbytes", 1, "bytes", FALSE)          \* def fbytes(payload: bytes)
FStr == Cb("fstr", 1, "str", FALSE)                \* def fstr(payload: str)
FDict == Cb("fdict", 1, "Dict[str, Any]", FALSE)   \* def fdict(payload: Dict[str, Any])
FInt == Cb("fint", 1, "int", FALSE)                \* def fint(payload: int)
F2 == Cb("f2", 2, "empty", FALSE)                  \* def f2(topic, payload)
FRaise == Cb("fraise", 1, "bytes", TRUE)           \* def fraise(payload: bytes): raise ...
FRaiseStr == Cb("fraisestr", 1, "str", TRUE)       \* def fraisestr(payload: str): raise ...

\* The (callback, payload_filter) pairs offered to add_subscriber.
Registrations ==
    { <<F0, NoneVal>>, <<F0, FilterOnStr>>, <<F0, FilterOnBytes>>,
      <<F0, FilterX1>>, <<F0, FilterInt>>,
      <<F1, NoneVal>>, <<F1, FilterOnBytes>>, <<F1, FilterOnStr>>,
      <<F1, FilterX1>>, <<F1, FilterInt>>,
      <<FBytes, NoneVal>>, <<FBytes, FilterOnBytes>>,
      <<FStr, NoneVal>>, <<FStr, FilterOnStr>>, <<FStr, FilterOnBytes>>,
      <<FDict, NoneVal>>, <<FDict, FilterX1>>,
      <<FInt, NoneVal>>, <<FInt, FilterInt>>,
      <<F2, NoneVal>>, <<F2, FilterOnStr>>,
      <<FRaise, NoneVal>>, <<FRaiseStr, NoneVal>> }

\* The pairs and payloads used where the topics are what matters.
TableRegistrations == { <<F0, NoneVal>>, <<FStr, FilterOnStr>>, <<F2, NoneVal>> }
TablePayloads == {PayloadOn, PayloadBad}

VARIABLES
    clock,        \* datetime.now()
    running,      \* Location._running
    pending,      \* Location._pending_callbacks: Seq of [dt, job, id]
    jobs,         \* the job closures made so far: Seq of JobSpecs
    schedPc,      \* where the scheduler thread stands
    scanNow,      \* _run_scheduler's local now
    snap,         \* the copy _pending_callbacks[:] being iterated
    idx,          \* position of the for loop in snap
    cur,          \* the entry cb whose callable is executing
    stopPc,       \* where the application thread stands in stop()
    nstops,       \* stop() calls begun
    fireCount,    \* history: per entry id, how often its callable was invoked
    lastReg,      \* history: the last registration at this instant [job, now, dt]
    lastFire,     \* history: the last run of a job body finished at this instant
    tickInvoked,  \* history: positions of snap invoked in the current scan
    tickRaised,   \* history: a job raised in the current scan
    mqttClient,   \* runtime._mqtt_client
    subscribers,  \* runtime._subscribers: topic -> subscribers_by_type
    subscribeCalls, \* the topics the bus client was asked to subscribe to
    nadds,        \* history: add_subscriber calls made
    usedTopics,   \* history: topics of add_subscriber calls made with a client
    failedTopics, \* history: topics of add_subscriber calls that raised
    lastAdd,      \* history: the last add_subscriber call and its outcome
    lastDispatch  \* history: the last message delivered and what notify did

geoVars == <<clock, running, pending, jobs, schedPc, scanNow, snap, idx, cur,
             stopPc, nstops, fireCount, lastReg, lastFire, tickInvoked,
             tickRaised>>

histVars == <<fireCount, lastReg, lastFire, tickInvoked, tickRaised>>

rtVars == <<mqttClient, subscribers, subscribeCalls, nadds, usedTopics,
            failedTopics, lastAdd, lastDispatch>>

vars == <<geoVars, rtVars>>

NoEntry == [dt |-> -1, job |-> 0, id |-> 0]
NoReg == [job |-> 0, now |-> -1, dt |-> -1]
NoFire == [entry |-> NoEntry, now |-> -1, calls |-> 0, raised |-> FALSE,
           inserted |-> <<>>]

RECURSIVE SumSeq(_)
SumSeq(s) == IF s = <<>> THEN 0 ELSE Head(s) + SumSeq(Tail(s))

TotalCalls == SumSeq(fireCount)

\* Location.__init__: the scheduler thread is started, nothing is pending.
InitGeo ==
    /\ clock = 0
    /\ running = TRUE
    /\ pending = <<>>
    /\ jobs = <<>>
    /\ schedPc = "check"
    /\ scanNow = 0
    /\ snap = <<>>
    /\ idx = 0
    /\ cur = NoEntry
    /\ stopPc = "idle"
    /\ nstops = 0
    /\ fireCount = <<>>
    /\ lastReg = NoReg
    /\ lastFire = NoFire
    /\ tickInvoked = {}
    /\ tickRaised = FALSE

NoAdd == [topic |-> "", callback |-> F0,
          payload_filter |-> NoneVal, outcome |-> "", tag |-> "None",
          before |-> NewManager, known |-> FALSE]
NoDispatch == [topic |-> "", payload |-> <<>>, known |-> FALSE,
               mgr |-> NewManager, res |-> NoResult]

\* The module globals of runtime.py as the import leaves them.
InitRt ==
    /\ mqttClient = "None"
    /\ subscribers = <<>>
    /\ subscribeCalls = <<>>
    /\ nadds = 0
    /\ usedTopics = {}
    /\ failedTopics = {}
    /\ lastAdd = NoAdd
    /\ lastDispatch = NoDispatch

Init == InitGeo /\ InitRt

\* Time passes, at any point of any thread. What was recorded about the
\* instant that ends is dropped.
Tick ==
    /\ clock < MaxTime
    /\ clock' = clock + 1
    /\ lastReg' = NoReg
    /\ lastFire' = NoFire
    /\ UNCHANGED rtVars
    /\ UNCHANGED <<running, pending, jobs, schedPc, scanNow, snap, idx, cur,
                   stopPc, nstops, fireCount, tickInvoked, tickRaised>>

\* on_sunrise / on_sunset / on_localtime (...)(func): the decorator body, run
\* by an application thread.
Register(js) ==
    /\ Len(jobs) < MaxJobs
    /\ LET j == Len(jobs) + 1
           dt == FirstOccurrence(js, clock)
       IN /\ jobs' = Append(jobs, js)
          /\ pending' = Append(pending,
                               [dt |-> dt, job |-> j, id |-> Len(fireCount) + 1])
          /\ fireCount' = Append(fireCount, 0)
          /\ lastReg' = [job |-> j, now |-> clock, dt |-> dt]
    /\ UNCHANGED rtVars
    /\ UNCHANGED <<clock, running, schedPc, scanNow, snap, idx, cur, stopPc,
                   nstops, lastFire, tickInvoked, tickRaised>>

\* while self._running: now = datetime.now(); for cb in pending[:]
SchedCheck ==
    /\ schedPc = "check"
    /\ running
    /\ Len(fireCount) < MaxEntries
    /\ scanNow' = clock
    /\ snap' = pending
    /\ idx' = 1
    /\ schedPc' = "scan"
    /\ tickInvoked' = {}
    /\ tickRaised' = FALSE
    /\ UNCHANGED rtVars
    /\ UNCHANGED <<clock, running, pending, jobs, cur, stopPc, nstops,
                   fireCount, lastReg, lastFire>>

\* while self._running: false, the thread's target returns.
SchedExit ==
    /\ schedPc = "check"
    /\ ~running
    /\ schedPc' = "exited"
    /\ UNCHANGED rtVars
    /\ UNCHANGED <<clock, running, pending, jobs, scanNow, snap, idx, cur,
                   stopPc, nstops, histVars>>

\* The test of the for body taken as strict.
IsDueStrict(now, dt) == now > dt

\* if now >= cb.datetime
IsDue(now, dt) == now >= dt

\* One pass of the for body up to the call: if now >= cb.datetime: remove(cb).
\* remove raises ValueError when cb is gone; the except clause swallows it.
SchedTest ==
    /\ schedPc = "scan"
    /\ idx <= Len(snap)
    /\ LET cb == snap[idx] IN
       IF IsDue(scanNow, cb.dt)
       THEN IF Contains(pending, cb)
            THEN LET i == FirstIndex(pending, cb) IN
                 /\ cur' = pending[i]
                 /\ pending' = RemoveAt(pending, i)
                 /\ schedPc' = "job"
                 /\ UNCHANGED <<idx, tickRaised>>
            ELSE /\ idx' = idx + 1
                 /\ tickRaised' = TRUE
                 /\ schedPc' = OnJobError
                 /\ UNCHANGED <<cur, pending>>
       ELSE /\ idx' = idx + 1
            /\ UNCHANGED <<cur, pending, schedPc, tickRaised>>
    /\ UNCHANGED rtVars
    /\ UNCHANGED <<clock, running, jobs, scanNow, snap, stopPc, nstops,
                   fireCount, lastReg, lastFire, tickInvoked>>

\* cb.callable(): func() returns, then the job body reads the time and appends
\* the next day's occurrence.
JobReturns ==
    /\ schedPc = "job"
    /\ LET e == [dt |-> NextOccurrence(jobs[cur.job], clock), job |-> cur.job,
                 id |-> Len(fireCount) + 1]
       IN /\ pending' = Append(pending, e)
          /\ fireCount' = Append([fireCount EXCEPT ![cur.id] = @ + 1], 0)
          /\ lastFire' = [entry |-> cur, now |-> clock, calls |-> 1,
                          raised |-> FALSE, inserted |-> <<e>>]
    /\ tickInvoked' = tickInvoked \cup {idx}
    /\ idx' = idx + 1
    /\ cur' = NoEntry
    /\ schedPc' = "scan"
    /\ UNCHANGED rtVars
    /\ UNCHANGED <<clock, running, jobs, scanNow, snap, stopPc, nstops,
                   lastReg, tickRaised>>

\* cb.callable(): func() raises; the exception leaves the job body before the
\* append and is caught in _run_scheduler.
JobRaises ==
    /\ schedPc = "job"
    /\ fireCount' = [fireCount EXCEPT ![cur.id] = @ + 1]
    /\ lastFire' = [entry |-> cur, now |-> clock, calls |-> 1,
                    raised |-> TRUE, inserted |-> <<>>]
    /\ tickInvoked' = tickInvoked \cup {idx}
    /\ tickRaised' = TRUE
    /\ idx' = idx + 1
    /\ cur' = NoEntry
    /\ schedPc' = OnJobError
    /\ UNCHANGED rtVars
    /\ UNCHANGED <<clock, running, pending, jobs, scanNow, snap, stopPc,
                   nstops, lastReg>>

\* The for loop is exhausted.
SchedEndScan ==
    /\ schedPc = "scan"
    /\ idx > Len(snap)
    /\ schedPc' = "sleep"
    /\ UNCHANGED rtVars
    /\ UNCHANGED <<clock, running, pending, jobs, scanNow, snap, idx, cur,
                   stopPc, nstops, histVars>>

\* time_module.sleep(1): one second is below the resolution of the clock, whose
\* advance is Tick. The locals of the finished scan are dead.
SchedSleep ==
    /\ schedPc = "sleep"
    /\ schedPc' = "check"
    /\ scanNow' = 0
    /\ snap' = <<>>
    /\ idx' = 0
    /\ tickInvoked' = {}
    /\ tickRaised' = FALSE
    /\ UNCHANGED rtVars
    /\ UNCHANGED <<clock, running, pending, jobs, cur, stopPc, nstops,
                   fireCount, lastReg, lastFire>>

ThreadAlive == schedPc \notin {"exited", "crashed"}

\* stop(): self._running = False
StopBegin ==
    /\ stopPc \in {"idle", "returned"}
    /\ nstops < MaxStops
    /\ nstops' = nstops + 1
    /\ running' = FALSE
    /\ stopPc' = "flagged"
    /\ UNCHANGED rtVars
    /\ UNCHANGED <<clock, pending, jobs, schedPc, scanNow, snap, idx, cur,
                   histVars>>

\* stop() without the join.
JoinSkipped == TRUE

\* stop(): thread.join() may return once the thread is no longer alive.
JoinMayReturn == ~ThreadAlive

\* stop(): if thread.is_alive(): thread.join(); the call then returns.
StopReturn ==
    /\ stopPc = "flagged"
    /\ JoinMayReturn
    /\ stopPc' = "returned"
    /\ UNCHANGED rtVars
    /\ UNCHANGED <<clock, running, pending, jobs, schedPc, scanNow, snap, idx,
                   cur, nstops, fireCount, lastReg, lastFire, tickInvoked,
                   tickRaised>>

NextGeo ==
    \/ Tick
    \/ \E js \in JobSpecs : Register(js)
    \/ SchedCheck
    \/ SchedExit
    \/ SchedTest
    \/ JobReturns
    \/ JobRaises
    \/ SchedEndScan
    \/ SchedSleep
    \/ StopBegin
    \/ StopReturn

SpecGeo == Init /\ [][NextGeo]_vars

\* The steps of the scheduler thread. The thread is a daemon thread that the
\* interpreter keeps scheduling, sleep(1) returns, and a job body is taken to
\* terminate, by returning or by raising.
SchedulerStep ==
    \/ SchedCheck
    \/ SchedExit
    \/ SchedTest
    \/ JobReturns
    \/ JobRaises
    \/ SchedEndScan
    \/ SchedSleep

\* The job of the runs checked for progress: a sunrise moved into the evening
\* before. Its entry waits when registered early in the day, and once the
\* evening has come its entries come due one after the other.
LiveJobSpecs == {[kind |-> "sunrise", param |-> 0 - 2]}

NextGeoLive ==
    \/ Tick
    \/ \E js \in LiveJobSpecs : Register(js)
    \/ SchedulerStep
    \/ StopBegin
    \/ StopReturn

SpecGeoLive == Init /\ [][NextGeoLive]_vars /\ WF_vars(SchedulerStep)

\* ------------------------------------------------------ claims, scheduler
PendingIds == {pending[k].id : k \in 1..Len(pending)}

\* C1: every firing of a recurring job's entry invokes the user callback once
\* and inserts exactly one new entry for the same job, at the job's
\* occurrence on the date after the date of 'now' (the time the job body
\* reads), however late the entry is fired.
C1_FireReschedules ==
    lastFire # NoFire =>
        /\ lastFire.calls = 1
        /\ Len(lastFire.inserted) = 1
        /\ lastFire.inserted[1].job = lastFire.entry.job
        /\ lastFire.inserted[1].dt =
               Occurrence(jobs[lastFire.entry.job], DateOf(lastFire.now) + 1)

\* C1, for the firings in which the user callback returns.
C1_FireReschedulesWhenReturning ==
    (lastFire # NoFire /\ ~lastFire.raised) =>
        /\ lastFire.calls = 1
        /\ Len(lastFire.inserted) = 1
        /\ lastFire.inserted[1].job = lastFire.entry.job
        /\ lastFire.inserted[1].dt =
               Occurrence(jobs[lastFire.entry.job], DateOf(lastFire.now) + 1)

\* C2: a registration at time now appends exactly one entry, for the new job,
\* at today's occurrence when that is strictly later than now and at
\* tomorrow's occurrence otherwise.
C2_RegisterSchedulesFirst ==
    [][jobs' # jobs =>
          LET j == Len(jobs')
              today == Occurrence(jobs'[j], DateOf(clock))
              tomorrow == Occurrence(jobs'[j], DateOf(clock) + 1)
          IN /\ Len(jobs') = Len(jobs) + 1
             /\ Len(pending') = Len(pending) + 1
             /\ SubSeq(pending', 1, Len(pending)) = pending
             /\ pending'[Len(pending')].job = j
             /\ (today > clock => pending'[Len(pending')].dt = today)
             /\ (today <= clock => pending'[Len(pending')].dt = tomorrow)]_vars

\* C2's case: a registration made at the very instant of today's occurrence,
\* scheduled for tomorrow, of a fixed local time and of a solar event.
C2_Witness ==
    /\ Len(jobs) = 2
    /\ jobs[1].kind = "localtime"
    /\ jobs[2].kind = "sunset"
    /\ jobs[2].param = -1
    /\ lastReg.job = 2
    /\ Occurrence(jobs[2], DateOf(lastReg.now)) = lastReg.now
    /\ lastReg.dt = Occurrence(jobs[2], DateOf(lastReg.now) + 1)
    /\ \E k \in 1..Len(pending) :
           pending[k].job = 2 /\ pending[k].dt = lastReg.dt

\* C4: a job that raises neither ends the scheduler thread nor keeps another
\* entry due in the same scan from being removed and invoked in that scan.
C4_RaisingJobIsolated ==
    /\ schedPc \in {"check", "scan", "job", "sleep", "exited"}
    /\ schedPc = "exited" => ~running
    /\ schedPc = "sleep" =>
           \A i \in 1..Len(snap) :
               snap[i].dt <= scanNow =>
                   /\ i \in tickInvoked
                   /\ snap[i].id \notin PendingIds
                   /\ fireCount[snap[i].id] = 1

\* C4's case: a scan is over in which a job raised and two entries were due.
C4_Witness ==
    /\ schedPc = "sleep"
    /\ tickRaised
    /\ Cardinality(tickInvoked) >= 2
    /\ lastFire.raised = FALSE

StopHasReturned == stopPc = "returned" \/ nstops > 1

\* C5: once stop() has returned the scheduler thread has exited and no job is
\* invoked any more, whatever is registered and however often stop() is
\* called again.
C5_StopJoins ==
    /\ [](StopHasReturned => schedPc = "exited")
    /\ [][StopHasReturned => (TotalCalls' = TotalCalls /\ schedPc' = "exited")]_vars

\* C5's case: stop() has returned a second time, after a job had fired, with a
\* due entry registered after the first stop still pending.
C5_Witness ==
    /\ stopPc = "returned"
    /\ nstops = 2
    /\ TotalCalls >= 1
    /\ \E k \in 1..Len(pending) : pending[k].dt <= clock /\ pending[k].job = 2

\* register_client(client)
RegisterClient ==
    /\ mqttClient = "None"
    /\ mqttClient' = "client"
    /\ UNCHANGED <<subscribers, subscribeCalls, nadds, usedTopics,
                   failedTopics, lastAdd, lastDispatch>>
    /\ UNCHANGED geoVars

\* add_subscriber without the membership test.
TopicAlwaysNew(topic) == TRUE

\* add_subscriber: if topic not in _subscribers
TopicIsNew(topic) == topic \notin DOMAIN subscribers

\* add_subscriber(topic, callback, payload_filter) with a client registered:
\* subscribe and create the manager for a new topic, then delegate.
AddSubscriber(topic, callback, payload_filter) ==
    /\ nadds < MaxAdds
    /\ mqttClient # "None"
    /\ nadds' = nadds + 1
    /\ usedTopics' = usedTopics \cup {topic}
    /\ LET new == TopicIsNew(topic)
           mgr == IF new THEN NewManager ELSE subscribers[topic]
           r == MgrAddSubscriber(mgr, callback, payload_filter)
       IN /\ subscribeCalls' = IF new THEN Append(subscribeCalls, topic)
                                ELSE subscribeCalls
          /\ subscribers' = [t \in DOMAIN subscribers \cup {topic} |->
                                IF t = topic THEN r.mgr ELSE subscribers[t]]
          /\ lastAdd' = [topic |-> topic, callback |-> callback,
                         payload_filter |-> payload_filter,
                         outcome |-> r.outcome, tag |-> r.tag, before |-> mgr,
                         known |-> ~new]
    /\ lastDispatch' = NoDispatch
    /\ UNCHANGED <<mqttClient, failedTopics>>
    /\ UNCHANGED geoVars

\* The table left by a failed call had the manager been stored before the
\* client was asked for.
TableWithManagerFirst(topic) ==
    [t \in DOMAIN subscribers \cup {topic} |->
        IF t = topic THEN NewManager ELSE subscribers[t]]

\* The table left when get_client() raises: line 134 is not reached.
TableAfterNoClient(topic) == subscribers

\* add_subscriber on a new topic with no client: get_client() raises before
\* anything is stored. (No topic is known before a client is registered.)
AddSubscriberNoClient(topic, callback, payload_filter) ==
    /\ nadds < MaxAdds
    /\ mqttClient = "None"
    /\ TopicIsNew(topic)
    /\ nadds' = nadds + 1
    /\ lastAdd' = [topic |-> topic, callback |-> callback,
                   payload_filter |-> payload_filter, outcome |-> "raised",
                   tag |-> "None", before |-> NewManager, known |-> FALSE]
    /\ failedTopics' = failedTopics \cup {topic}
    /\ subscribers' = TableAfterNoClient(topic)
    /\ lastDispatch' = NoDispatch
    /\ UNCHANGED <<mqttClient, subscribeCalls, usedTopics>>
    /\ UNCHANGED geoVars

\* The lookup _subscribers[msg.topic] made without the membership test: a
\* KeyError leaves the hook.
OnUnknownTopicKeyError == [NoResult EXCEPT !.raised = TRUE]

\* if msg.topic not in _subscribers: a warning is logged and the hook returns.
OnUnknownTopic == NoResult

\* _on_mqtt_message(client, userdata, msg): the hook register_client installed.
OnMqttMessage(topic, payload) ==
    /\ mqttClient # "None"
    /\ lastDispatch' =
           IF topic \notin DOMAIN subscribers
           THEN [topic |-> topic, payload |-> payload, known |-> FALSE,
                 mgr |-> NewManager, res |-> OnUnknownTopic]
           ELSE [topic |-> topic, payload |-> payload, known |-> TRUE,
                 mgr |-> subscribers[topic],
                 res |-> Notify(subscribers[topic], payload)]
    /\ lastAdd' = NoAdd
    /\ UNCHANGED <<mqttClient, subscribers, subscribeCalls, nadds, usedTopics,
                   failedTopics>>
    /\ UNCHANGED geoVars

\* One topic, every registration and payload: the SubscriberManager.
NextDispatch ==
    \/ RegisterClient
    \/ \E r \in Registrations : AddSubscriber("t1", r[1], r[2])
    \/ \E p \in Payloads : OnMqttMessage("t1", p)

SpecDispatch == Init /\ [][NextDispatch]_vars

\* Several topics, with and without a client: the dispatch table.
NextTopics ==
    \/ RegisterClient
    \/ \E t \in Topics, r \in TableRegistrations : AddSubscriber(t, r[1], r[2])
    \/ \E t \in Topics, r \in TableRegistrations :
           AddSubscriberNoClient(t, r[1], r[2])
    \/ \E t \in Topics, p \in TablePayloads : OnMqttMessage(t, p)

SpecTopics == Init /\ [][NextTopics]_vars

\* ------------------------------------------------------ claims, dispatcher
CountIn(seq, x) == Cardinality({k \in 1..Len(seq) : seq[k] = x})

Positions(mgr) == {<<t, i>> : t \in Tags, i \in 1..MaxAdds} \cap
                  UNION {{<<t, i>> : i \in 1..Len(mgr[t])} : t \in Tags}

\* How often the last notify invoked the subscriber at position i of tag t.
TimesInvoked(t, i) ==
    Cardinality({k \in 1..Len(lastDispatch.res.invoked) :
                    /\ lastDispatch.res.invoked[k].tag = t
                    /\ lastDispatch.res.invoked[k].pos = i})

\* The subscriber at position i of tag t matches the last message.
Matches(t, i) ==
    LET s == lastDispatch.mgr[t][i]
        c == Convert(t, lastDispatch.payload)
    IN c.ok /\ (s.payload_filter = NoneVal \/ c.val = s.payload_filter)

SomeInvokedRaises ==
    \E k \in 1..Len(lastDispatch.res.invoked) :
        LET call == lastDispatch.res.invoked[k]
        IN lastDispatch.mgr[call.tag][call.pos].callback.raises

\* C3: when a subscriber raises during notify, every other matching subscriber
\* of the topic is still invoked for the message and the exception does not
\* reach the delivery path.
C3_RaisingSubscriberIsolated ==
    (lastDispatch.known /\ SomeInvokedRaises) =>
        /\ ~lastDispatch.res.raised
        /\ \A p \in Positions(lastDispatch.mgr) :
               Matches(p[1], p[2]) => TimesInvoked(p[1], p[2]) = 1

\* C6: with a client registered, the client has been asked to subscribe exactly
\* once to every topic used in an add_subscriber call, accepted or rejected,
\* and to no other, and the dispatch table holds a manager for exactly these
\* topics.
C6_OneSubscribePerTopic ==
    /\ \A t \in Topics :
           CountIn(subscribeCalls, t) = IF t \in usedTopics THEN 1 ELSE 0
    /\ DOMAIN subscribers = usedTopics
    /\ \A t \in DOMAIN subscribers :
           \A tag \in Tags : \A i \in 1..Len(subscribers[t][tag]) :
               subscribers[t][tag][i].callback # F2

\* C6's case: both topics used, one of them again by a registration the
\* manager rejected.
C6_Witness ==
    /\ usedTopics = Topics
    /\ nadds >= 3
    /\ lastAdd.known
    /\ lastAdd.outcome = "too_many_params"
    /\ \E t \in Topics : subscribers[t]["str"] # <<>>

\* The manager of the last message holds exactly one subscriber under each
\* tag, each without a filter and with one parameter.
OnePlainSubscriberPerTag ==
    \A t \in Tags :
        /\ Len(lastDispatch.mgr[t]) = 1
        /\ lastDispatch.mgr[t][1].payload_filter = NoneVal
        /\ lastDispatch.mgr[t][1].callback.nparams = 1

\* Every converter decodes the payload, to a value of its own type.
DecodableEverywhere(payload) ==
    \A t \in Tags : Convert(t, payload).ok /\ Convert(t, payload).val.ty = t

EachTagGotItsConversion ==
    /\ Len(lastDispatch.res.invoked) = 3
    /\ \A t \in Tags :
           /\ TimesInvoked(t, 1) = 1
           /\ \A k \in 1..Len(lastDispatch.res.invoked) :
                  lastDispatch.res.invoked[k].tag = t =>
                      /\ lastDispatch.res.invoked[k].arg.ty = t
                      /\ lastDispatch.res.invoked[k].arg =
                             Convert(t, lastDispatch.payload).val

\* C7: one notify of a payload all three converters decode, on a manager with
\* one filterless one-parameter subscriber per tag, invokes each of the three
\* exactly once, each with its own tag's conversion of the payload.
C7_EachTagItsConversion ==
    (/\ lastDispatch.known
     /\ OnePlainSubscriberPerTag
     /\ DecodableEverywhere(lastDispatch.payload)) => EachTagGotItsConversion

\* C7, when none of the three subscribers raises.
C7_EachTagItsConversionWhenNoneRaises ==
    (/\ lastDispatch.known
     /\ OnePlainSubscriberPerTag
     /\ DecodableEverywhere(lastDispatch.payload)
     /\ \A t \in Tags : ~lastDispatch.mgr[t][1].callback.raises)
        => /\ EachTagGotItsConversion
           /\ lastDispatch.payload = PayloadX1Spaced =>
                  \E k \in 1..3 : lastDispatch.res.invoked[k].arg = FilterX1

ConvertedOk(t) ==
    /\ \E k \in 1..Len(lastDispatch.res.converted) :
           lastDispatch.res.converted[k] = t
    /\ \A k \in 1..Len(lastDispatch.res.failed) : lastDispatch.res.failed[k] # t

FilterDecides(p) ==
    LET s == lastDispatch.mgr[p[1]][p[2]]
        c == Convert(p[1], lastDispatch.payload)
    IN IF s.payload_filter = NoneVal
       THEN TimesInvoked(p[1], p[2]) = 1
       ELSE /\ TimesInvoked(p[1], p[2]) = (IF c.val = s.payload_filter THEN 1 ELSE 0)

\* C8: in every notify, of the subscribers of a tag whose conversion
\* succeeded, one with a filter is invoked exactly when the converted payload
\* equals the filter, and one without a filter is invoked whatever the
\* filtered ones did.
C8_FilterDecidesInvocation ==
    lastDispatch.known =>
        \A p \in Positions(lastDispatch.mgr) :
            ConvertedOk(p[1]) => FilterDecides(p)

\* C8, for the calls of notify in which no invoked callback raises.
C8_FilterDecidesInvocationWhenNoneRaises ==
    (lastDispatch.known /\ ~SomeInvokedRaises) =>
        \A p \in Positions(lastDispatch.mgr) :
            ConvertedOk(p[1]) => FilterDecides(p)

\* The tags whose conversion failed in the last notify.
FailingTags ==
    {lastDispatch.res.failed[k] : k \in 1..Len(lastDispatch.res.failed)}

WithoutFailingTags ==
    [t \in Tags |-> IF t \in FailingTags THEN <<>> ELSE lastDispatch.mgr[t]]

\* C9: when the conversion to a tag fails, none of that tag's subscribers is
\* invoked, the subscribers of the other tags are invoked exactly as without
\* the failure, and notify returns without raising.
C9_ConversionFailureIsolated ==
    (lastDispatch.known /\ FailingTags # {}) =>
        /\ \A t \in FailingTags : \A i \in 1..Len(lastDispatch.mgr[t]) :
               TimesInvoked(t, i) = 0
        /\ lastDispatch.res.invoked =
               Notify(WithoutFailingTags, lastDispatch.payload).invoked
        /\ ~lastDispatch.res.raised

\* C9, with "returns without raising" read as: raises only if it would have
\* raised without the failing tags' subscribers.
C9_ConversionFailureAsIfAbsent ==
    (lastDispatch.known /\ FailingTags # {}) =>
        /\ \A t \in FailingTags : \A i \in 1..Len(lastDispatch.mgr[t]) :
               TimesInvoked(t, i) = 0
        /\ lastDispatch.res.invoked =
               Notify(WithoutFailingTags, lastDispatch.payload).invoked
        /\ lastDispatch.res.raised =
               Notify(WithoutFailingTags, lastDispatch.payload).raised

StoredUnder(t) ==
    /\ lastAdd.outcome = "stored"
    /\ lastAdd.tag = t
    /\ subscribers[lastAdd.topic] =
           [lastAdd.before EXCEPT ![t] =
               Append(@, [callback |-> lastAdd.callback, datatype |-> t,
                          payload_filter |-> lastAdd.payload_filter])]

Rejected ==
    /\ lastAdd.outcome \in {"too_many_params", "incompatible", "unsupported"}
    /\ subscribers[lastAdd.topic] = lastAdd.before

\* The tag a declared parameter type names.
DeclaredTag(annotation) ==
    IF annotation = "Dict[str, Any]" THEN "dict" ELSE annotation

OneParamAdd == lastAdd # NoAdd /\ lastAdd.callback.nparams = 1

\* C10 as stated: a one-parameter callback is stored under its declared type's
\* tag; without a declared type under the tag of the filter's type; with
\* neither under raw bytes. (A declared type without converter and a filter
\* disagreeing with a declared type are left aside: they are rejections.)
C10_TagOfOneParameterCallback ==
    OneParamAdd =>
        LET a == lastAdd.callback.annotation
            f == lastAdd.payload_filter
        IN /\ (a # "empty" /\ lastAdd.outcome = "stored")
                  => StoredUnder(DeclaredTag(a))
           /\ (a = "empty" /\ f # NoneVal /\ f.ty \in Tags) =>
                  /\ lastAdd.outcome = "stored"
                  /\ lastAdd.tag = f.ty
           /\ (a = "empty" /\ f = NoneVal) => StoredUnder("bytes")

\* C10 amended: a one-parameter callback without a declared type is taken as
\* declared raw-bytes, with or without a filter. The subscriber is stored under
\* the tag T of the declared type (raw bytes for none) when T has a converter
\* and any filter given is of type T, and is rejected otherwise; a callback
\* without declared type is only ever invoked with the raw bytes.
C10_TagOfOneParameterCallbackAmended ==
    /\ OneParamAdd =>
           LET a == lastAdd.callback.annotation
               f == lastAdd.payload_filter
               T == IF a = "empty" THEN "bytes" ELSE DeclaredTag(a)
           IN IF T \in Tags /\ (f = NoneVal \/ f.ty = T)
              THEN StoredUnder(T)
              ELSE Rejected
    /\ \A k \in 1..Len(lastDispatch.res.invoked) :
           LET call == lastDispatch.res.invoked[k]
               s == lastDispatch.mgr[call.tag][call.pos]
           IN (s.callback.nparams = 1 /\ s.callback.annotation = "empty")
                  => call.arg = BytesVal(lastDispatch.payload)

\* C10's case: a callback with one undeclared parameter was registered with a
\* text filter, after one with a declared type was stored.
C10_Witness ==
    /\ lastAdd.callback = F1
    /\ lastAdd.payload_filter = FilterOnStr
    /\ lastAdd.outcome = "incompatible"
    /\ lastAdd.before["dict"] # <<>>
    /\ lastAdd.before["dict"][1].callback = FDict
    /\ lastAdd.before["bytes"] # <<>>
    /\ lastAdd.before["bytes"][1].callback = F1
    /\ lastAdd.before["bytes"][1].payload_filter = FilterOnBytes

\* The tag a registration resolves to: the declared type's, else the filter's
\* type, else raw bytes.
ResolvedTag(callback, payload_filter) ==
    IF callback.nparams = 1 /\ callback.annotation # "empty"
    THEN DeclaredTag(callback.annotation)
    ELSE IF payload_filter # NoneVal THEN payload_filter.ty
    ELSE "bytes"

\* The three cases of rejection.
TooManyParams(callback) == callback.nparams > 1

DeclaredDisagrees(callback, payload_filter) ==
    /\ callback.nparams = 1
    /\ callback.annotation # "empty"
    /\ payload_filter # NoneVal
    /\ payload_filter.ty # DeclaredTag(callback.annotation)

NoConverter(callback, payload_filter) ==
    ResolvedTag(callback, payload_filter) \notin Tags

MustBeRejected(callback, payload_filter) ==
    \/ TooManyParams(callback)
    \/ DeclaredDisagrees(callback, payload_filter)
    \/ NoConverter(callback, payload_filter)

\* C11: a registration whose callback has more than one parameter, whose
\* declared type and filter disagree, or whose resolved tag has no converter
\* returns without raising and leaves every tag's subscriber list as it was;
\* no manager ever holds such a registration, so no notify invokes it.
C11_RejectedRegistrationsDropped ==
    /\ (lastAdd # NoAdd /\ lastAdd.outcome # "raised"
            /\ MustBeRejected(lastAdd.callback, lastAdd.payload_filter))
           => Rejected
    /\ \A topic \in DOMAIN subscribers : \A t \in Tags :
           \A i \in 1..Len(subscribers[topic][t]) :
               ~MustBeRejected(subscribers[topic][t][i].callback,
                               subscribers[topic][t][i].payload_filter)
    /\ \A k \in 1..Len(lastDispatch.res.invoked) :
           LET call == lastDispatch.res.invoked[k]
               s == lastDispatch.mgr[call.tag][call.pos]
           IN ~MustBeRejected(s.callback, s.payload_filter)

\* C11's case: a zero-parameter callback with an integer filter is refused by
\* a manager that already holds subscribers.
C11_Witness ==
    /\ lastAdd.callback = F0
    /\ lastAdd.payload_filter = FilterInt
    /\ lastAdd.outcome = "unsupported"
    /\ lastAdd.before["str"] # <<>>
    /\ subscribers[lastAdd.topic] = lastAdd.before


\* What the last notify did with the zero-parameter subscriber at position p:
\* no argument in any call; without a filter one call, with a filter one call
\* exactly when the payload converted to the filter's type equals the filter.
ZeroParamServed(p) ==
    LET s == lastDispatch.mgr[p[1]][p[2]]
        f == s.payload_filter
        c == IF f = NoneVal THEN Failed ELSE Convert(f.ty, lastDispatch.payload)
    IN /\ \A k \in 1..Len(lastDispatch.res.invoked) :
              (/\ lastDispatch.res.invoked[k].tag = p[1]
               /\ lastDispatch.res.invoked[k].pos = p[2])
                  => lastDispatch.res.invoked[k].arg = NoArg
       /\ TimesInvoked(p[1], p[2]) =
              IF f = NoneVal \/ (c.ok /\ c.val = f) THEN 1 ELSE 0

ZeroParamPositions ==
    {p \in Positions(lastDispatch.mgr) :
        lastDispatch.mgr[p[1]][p[2]].callback.nparams = 0}

\* C12: a subscriber whose callback has no parameter is invoked with no
\* argument; without a filter exactly once for every notify on its topic,
\* whatever the payload, and with a filter exactly when the payload converted
\* to the filter's type equals the filter.
C12_ZeroParamInvocation ==
    lastDispatch.known => \A p \in ZeroParamPositions : ZeroParamServed(p)

\* C12, for the calls of notify in which no invoked callback raises.
C12_ZeroParamInvocationWhenNoneRaises ==
    (lastDispatch.known /\ ~SomeInvokedRaises) =>
        \A p \in ZeroParamPositions : ZeroParamServed(p)

\* A payload that is neither text nor a map reached filterless and filtered
\* zero-parameter subscribers.
C12_Reached ==
    /\ lastDispatch.known
    /\ lastDispatch.payload = PayloadBad
    /\ ~SomeInvokedRaises
    /\ \E p \in ZeroParamPositions :
           lastDispatch.mgr[p[1]][p[2]].payload_filter = NoneVal
    /\ \E p \in ZeroParamPositions :
           lastDispatch.mgr[p[1]][p[2]].payload_filter = FilterOnStr


\* C13: add_subscriber on a topic without manager, with no client registered,
\* fails at once and leaves the dispatch table as it was: no manager for the
\* topic, no subscribe call, the callback registered nowhere. A later
\* add_subscriber on the topic, with a client, issues the topic's one
\* subscribe call.
C13_NoClientLeavesTable ==
    /\ lastAdd.outcome = "raised" =>
           /\ lastAdd.topic \notin DOMAIN subscribers
           /\ CountIn(subscribeCalls, lastAdd.topic) = 0
    /\ mqttClient = "None" => (subscribers = <<>> /\ subscribeCalls = <<>>)
    /\ \A t \in failedTopics :
           /\ t \in DOMAIN subscribers <=> t \in usedTopics
           /\ CountIn(subscribeCalls, t) = IF t \in usedTopics THEN 1 ELSE 0

\* C13's case: a call failed for want of a client, and the same topic was
\* used again twice once a client was registered.
C13_Witness ==
    /\ lastAdd.topic \in failedTopics
    /\ lastAdd.known
    /\ lastAdd.outcome = "stored"
    /\ CountIn(subscribeCalls, lastAdd.topic) = 1


\* C14: a message on a topic without manager is dropped: the hook returns
\* without raising, no callback is invoked, and the dispatch table and the
\* subscribe calls stay as they were.
C14_UnknownTopicDropped ==
    /\ [](lastDispatch # NoDispatch /\ ~lastDispatch.known =>
              /\ ~lastDispatch.res.raised
              /\ lastDispatch.res.invoked = <<>>
              /\ lastDispatch.topic \notin DOMAIN subscribers
              /\ CountIn(subscribeCalls, lastDispatch.topic) = 0)
    /\ [][(lastDispatch' # NoDispatch /\ ~lastDispatch'.known) =>
              UNCHANGED <<subscribers, subscribeCalls>>]_vars

\* C14's case: a message arrived on a topic nobody registered on while the
\* other topic had a subscriber that any message on it would reach.
C14_Witness ==
    /\ lastDispatch # NoDispatch
    /\ ~lastDispatch.known
    /\ \E t \in DOMAIN subscribers :
           /\ t # lastDispatch.topic
           /\ subscribers[t]["bytes"] # <<>>
           /\ subscribers[t]["bytes"][1].callback = F0


\* ------------------------------------------------ claims, scheduler (cont.)
InQueue(id) == Cardinality({k \in 1..Len(pending) : pending[k].id = id})

Executing(id) == IF cur.id = id THEN 1 ELSE 0

\* C15: under every interleaving of registrations with the scan and with the
\* job bodies' re-insertions, every entry ever inserted is in exactly one
\* place: still pending, removed with its job executing, or fired, and it is
\* fired at most once. No insert is lost and no entry is fired twice.
C15_NoLostInsertNoDoubleFire ==
    \A id \in 1..Len(fireCount) :
        /\ fireCount[id] <= 1
        /\ InQueue(id) + Executing(id) + fireCount[id] = 1

\* C15's case: a job that has fired before is executing again, and a
\* registration of another job arrived after the scan took its snapshot.
C15_Witness ==
    /\ schedPc = "job"
    /\ TotalCalls >= 1
    /\ lastReg # NoReg
    /\ lastReg.job # cur.job
    /\ \E k \in 1..Len(pending) :
           /\ pending[k].job = lastReg.job
           /\ \A m \in 1..Len(snap) : snap[m].id # pending[k].id


EntriesOf(j) == Cardinality({k \in 1..Len(pending) : pending[k].job = j})

\* The job is where it belongs: executing with no entry, or waiting with one.
InSchedule(j) == IF cur.job = j THEN EntriesOf(j) = 0 ELSE EntriesOf(j) = 1

\* C16: a registered recurring job never drops out of the schedule: whenever
\* it is not executing, the pending queue holds exactly one entry for it,
\* after any number of firings, also those in which the callback raised.
C16_JobStaysScheduled ==
    \A j \in 1..Len(jobs) : cur.job # j => EntriesOf(j) = 1

\* C16, for every step but the one in which the job's callback raises.
C16_JobStaysScheduledUnlessRaising ==
    [][\A j \in 1..Len(jobs) :
           (InSchedule(j) /\ ~(schedPc = "job" /\ cur.job = j /\ schedPc' = OnJobError
                               /\ pending' = pending))
               => InSchedule(j)']_vars

\* A job whose callback raised has left the schedule while the other job
\* waits for its second firing.
C16_Reached ==
    /\ Len(jobs) = 2
    /\ cur = NoEntry
    /\ EntriesOf(1) = 0
    /\ EntriesOf(2) = 1
    /\ TotalCalls >= 2


\* The calendar day an entry is the occurrence of: the occurrences of a job
\* on different days are different instants.
Days == (0 - 1)..(DateOf(MaxTime) + 2)

OccurrenceDay(e) == CHOOSE d \in Days : Occurrence(jobs[e.job], d) = e.dt

\* C17: the successive entries of a recurring job are the occurrences of
\* consecutive calendar days: the entry inserted when the occurrence of day D
\* fires is the occurrence of day D + 1, for every offset and every firing
\* delay, so that no day is skipped and none is scheduled twice.
C17_ConsecutiveDays ==
    lastFire # NoFire =>
        \A k \in 1..Len(lastFire.inserted) :
            OccurrenceDay(lastFire.inserted[k]) =
                OccurrenceDay(lastFire.entry) + 1

\* C17, for the entries that fire on the calendar day they are the
\* occurrence of.
C17_ConsecutiveDaysWhenFiredOnItsDay ==
    (lastFire # NoFire /\ DateOf(lastFire.now) = OccurrenceDay(lastFire.entry))
        => \A k \in 1..Len(lastFire.inserted) :
               OccurrenceDay(lastFire.inserted[k]) =
                   OccurrenceDay(lastFire.entry) + 1

\* A day is skipped: an occurrence fired after midnight of its day.
C17_ReachedSkip ==
    /\ lastFire # NoFire
    /\ Len(lastFire.inserted) = 1
    /\ OccurrenceDay(lastFire.inserted[1]) = OccurrenceDay(lastFire.entry) + 2

\* A day is scheduled twice: an offset moved the occurrence of a day into the
\* day before, where it fired.
C17_ReachedTwice ==
    /\ lastFire # NoFire
    /\ Len(lastFire.inserted) = 1
    /\ OccurrenceDay(lastFire.inserted[1]) = OccurrenceDay(lastFire.entry)


\* C18: every entry, inserted by a registration or by a firing, has a
\* fire-time strictly later than the time of its insertion, for every kind of
\* job and every signed offset; it is not due at the scan that follows.
C18_FireTimeAfterInsertion ==
    /\ lastReg # NoReg => lastReg.dt > lastReg.now
    /\ lastFire # NoFire =>
           \A k \in 1..Len(lastFire.inserted) :
               lastFire.inserted[k].dt > lastFire.now

NotEarlier(js) == js.kind = "localtime" \/ js.param >= 0

\* C18, for fixed local times and for solar events with an offset that is not
\* negative.
C18_FireTimeAfterInsertionNotEarlier ==
    /\ (lastReg # NoReg /\ NotEarlier(jobs[lastReg.job]))
           => lastReg.dt > lastReg.now
    /\ (lastFire # NoFire /\ NotEarlier(jobs[lastFire.entry.job])) =>
           \A k \in 1..Len(lastFire.inserted) :
               lastFire.inserted[k].dt > lastFire.now

\* An entry inserted by a firing was due at once and has fired again.
C18_ReachedRefire ==
    /\ lastFire # NoFire
    /\ Len(lastFire.inserted) = 1
    /\ lastFire.inserted[1].dt <= lastFire.now
    /\ lastFire.entry.id > Len(jobs)


\* The scan that starts below MaxEntries fires at most one entry per job.
EntryIds == 1..(MaxEntries + MaxJobs - 1)

DuePending(id) ==
    \E k \in 1..Len(pending) : pending[k].id = id /\ pending[k].dt <= clock

Fired(id) == id <= Len(fireCount) /\ fireCount[id] = 1

\* The scheduler takes no further snapshot.
ScanningEnded == ~running \/ Len(fireCount) >= MaxEntries

\* C19: while the scheduler is running and job bodies terminate, a pending
\* entry whose fire-time the clock has reached is eventually removed and its
\* job invoked, under fair scheduling of the scheduler thread, whatever else
\* is due or inserted meanwhile.
C19_DueEntryEventuallyFired ==
    \A id \in EntryIds : DuePending(id) ~> (Fired(id) \/ ScanningEnded)

\* C19's case: an entry became due behind another entry, and has fired after
\* entries inserted meanwhile.
C19_Witness ==
    /\ running
    /\ Len(fireCount) < MaxEntries
    /\ Len(jobs) = 2
    /\ Fired(2)
    /\ Fired(3)
    /\ DuePending(Len(fireCount))


\* ------------------------------------------------ claims, dispatcher (cont.)
\* How often the last notify called the converter of tag t.
TimesConverted(t) == CountIn(lastDispatch.res.converted, t)

\* C20: in one notify the converter of a tag is called exactly once when the
\* tag has a subscriber, however many, and not at all when it has none, so a
\* payload no subscriber asked to decode reports no conversion error.
C20_ConverterOncePerTag ==
    lastDispatch.known =>
        /\ \A t \in Tags :
               TimesConverted(t) =
                   IF lastDispatch.mgr[t] # <<>> THEN 1 ELSE 0
        /\ \A t \in FailingTags : lastDispatch.mgr[t] # <<>>

\* C20, for the calls of notify in which no invoked callback raises.
C20_ConverterOncePerTagWhenNoneRaises ==
    (lastDispatch.known /\ ~SomeInvokedRaises) =>
        /\ \A t \in Tags :
               TimesConverted(t) =
                   IF lastDispatch.mgr[t] # <<>> THEN 1 ELSE 0
        /\ \A t \in FailingTags : lastDispatch.mgr[t] # <<>>

\* Two subscribers of one tag shared one conversion, and an undecodable
\* payload met no text or map subscriber.
C20_Reached ==
    /\ lastDispatch.known
    /\ lastDispatch.payload = PayloadBad
    /\ Len(lastDispatch.mgr["bytes"]) >= 2
    /\ Len(lastDispatch.res.invoked) >= 2
    /\ ~SomeInvokedRaises
    /\ lastDispatch.res.converted = <<"bytes">>
    /\ lastDispatch.res.failed = <<>>

=============================================================================
